---- MODULE Spec2Model ----
(***************************************************************************)
(* Block DAO of iotex-core (blockchain/blockdao.go): the indexed block     *)
(* store on top of a namespaced key-value store.  The state is the content *)
(* of the key-value store; the operations are Start, Stop and putBlock,    *)
(* and the read API is a family of operators over the store.               *)
(***************************************************************************)
EXTENDS Integers, Sequences, FiniteSets, TLC

VARIABLES
    store,      \* the KV store: namespace -> (key -> value), values are byte strings
    started,    \* whether the underlying KV store is started (lifecycle)
    puts,       \* history: ids of the blocks whose putBlock returned nil, in call order
    nputs,      \* number of putBlock calls made so far
    nstarts,    \* number of Start calls made so far
    result,     \* outcome of the last call: operation, error, block, injected fault
    inflight,   \* per writer: the putBlock call that has staged its batch and not committed
    overlapped, \* history: whether a putBlock was called while another was in flight
    reader      \* the enumeration of an address in progress: counter read, position, result

vars == <<store, started, puts, nputs, nstarts, result, inflight, overlapped, reader>>

-----------------------------------------------------------------------------
(* Bounds of the model *)

MaxPuts == 2
MaxStarts == 2

-----------------------------------------------------------------------------
(* Schema: namespaces, prefixes and singleton keys *)

blockNS == "blocks"
blockHashHeightMappingNS == "hash<->height"
blockTransferBlockMappingNS == "transfer<->block"
blockVoteBlockMappingNS == "vote<->block"
blockAddressTransferMappingNS == "address<->transfer"
blockAddressTransferCountMappingNS == "address<->transfercount"
blockAddressVoteMappingNS == "address<->vote"
blockAddressVoteCountMappingNS == "address<->votecount"

Namespaces ==
    { blockNS, blockHashHeightMappingNS, blockTransferBlockMappingNS,
      blockVoteBlockMappingNS, blockAddressTransferMappingNS,
      blockAddressTransferCountMappingNS, blockAddressVoteMappingNS,
      blockAddressVoteCountMappingNS }

hashPrefix == "hash."
transferPrefix == "transfer."
votePrefix == "vote."
heightPrefix == "height."
transferFromPrefix == "transfer-from."
transferToPrefix == "transfer-to."
voteFromPrefix == "vote-from."
voteToPrefix == "vote-to."

\* A key is the concatenation of an ASCII prefix and a binary payload; it is
\* kept as the pair <<prefix, payload bytes>>.
Key(prefix, payload) == <<prefix, payload>>

topHeightKey == Key("top-height", <<>>)
totalTransfersKey == Key("total-transfers", <<>>)
totalVotesKey == Key("total-votes", <<>>)

-----------------------------------------------------------------------------
(* Codec *)

\* length of hash.Hash32B
HashLen == 32

\* byteutil.Uint64ToBytes: 8 bytes, machine (little) endian.  Every integer of
\* the model is below 2^31, so the four high bytes are zero.
Uint64ToBytes(v) ==
    <<v % 256, (v \div 256) % 256, (v \div 65536) % 256, (v \div 16777216) % 256,
      0, 0, 0, 0>>

\* enc.MachineEndian.Uint64: decodes the first 8 bytes, little endian
Uint64(b) == b[1] + 256 * b[2] + 65536 * b[3] + 16777216 * b[4]

\* make([]byte, 8)
ZeroBytes8 == <<0, 0, 0, 0, 0, 0, 0, 0>>

\* hash.ZeroHash32B
ZeroHash32B == SubSeq([i \in 1..HashLen |-> 0], 1, HashLen)

\* copy(hash[:], value): overwrite the leading bytes of a zero hash
CopyHash(value) ==
    SubSeq([i \in 1..HashLen |-> IF i <= Len(value) THEN value[i] ELSE 0], 1, HashLen)

-----------------------------------------------------------------------------
(* The blocks, transfers and votes handed to putBlock *)

\* the 32-byte hash whose bytes all are n
Hash32(n) == SubSeq([i \in 1..HashLen |-> n], 1, HashLen)

AddrA == <<65>>
AddrB == <<66>>
Addresses == {AddrA, AddrB}

PubA == <<1>>
PubB == <<2>>
PubBad == <<3>>

\* iotxaddress.GetAddress: derives the raw address of a public key, or fails
GetAddress(pubkey) ==
    IF pubkey = PubA THEN [err |-> "none", RawAddress |-> AddrA]
    ELSE IF pubkey = PubB THEN [err |-> "none", RawAddress |-> AddrB]
    ELSE [err |-> "derivation", RawAddress |-> <<>>]

Transfer(n, s, r) == [hash |-> Hash32(n), Sender |-> s, Recipient |-> r]
Vote(n, s, r) == [hash |-> Hash32(n), SelfPubkey |-> s, VotePubkey |-> r]

Block(n, h, ts, vs) == [hash |-> Hash32(n), height |-> h, Transfers |-> ts, Votes |-> vs]

\* the blocks of the model: an empty block at height 0, two competing blocks
\* at height 1 that carry the same transfer and the same vote, a block in
\* which one address sends twice and one address votes twice, a block whose
\* second vote names an underivable votee key, and a block whose second vote
\* names an underivable voter key
Blocks ==
    [genesis |-> Block(100, 0, <<>>, <<>>),
     one |-> Block(101, 1, <<Transfer(11, AddrA, AddrB)>>, <<Vote(21, PubA, PubB)>>),
     two |-> Block(102, 2, <<Transfer(12, AddrA, AddrB), Transfer(13, AddrA, AddrA)>>,
                   <<Vote(22, PubB, PubB), Vote(23, PubB, PubA)>>),
     fork |-> Block(103, 1, <<Transfer(14, AddrB, AddrA), Transfer(11, AddrA, AddrB)>>,
                    <<Vote(21, PubA, PubB)>>),
     bad |-> Block(104, 3, <<Transfer(15, AddrB, AddrB)>>,
                   <<Vote(24, PubA, PubA), Vote(25, PubB, PubBad)>>),
     badVoter |-> Block(105, 3, <<>>, <<Vote(26, PubB, PubA), Vote(27, PubBad, PubA)>>)]

BlockIds == DOMAIN Blocks

Blk(id) == Blocks[id]

RECURSIVE Flatten(_)
Flatten(ss) == IF ss = <<>> THEN <<>> ELSE Head(ss) \o Flatten(Tail(ss))

\* Block.Serialize: height, then the transfers and the votes, each list
\* preceded by its length
Serialize(blk) ==
    Uint64ToBytes(blk.height)
        \o <<Len(blk.Transfers)>>
        \o Flatten([i \in 1..Len(blk.Transfers) |->
                blk.Transfers[i].hash \o <<Len(blk.Transfers[i].Sender)>>
                    \o blk.Transfers[i].Sender \o blk.Transfers[i].Recipient])
        \o <<Len(blk.Votes)>>
        \o Flatten([i \in 1..Len(blk.Votes) |->
                blk.Votes[i].hash \o <<Len(blk.Votes[i].SelfPubkey)>>
                    \o blk.Votes[i].SelfPubkey \o blk.Votes[i].VotePubkey])

\* Block.Deserialize: the block whose serialization the bytes are
Deserialize(value) ==
    IF \E id \in BlockIds : Serialize(Blk(id)) = value
    THEN [err |-> "none", blk |-> Blk(CHOOSE id \in BlockIds : Serialize(Blk(id)) = value)]
    ELSE [err |-> "deserialize", blk |-> Block(0, 0, <<>>, <<>>)]

-----------------------------------------------------------------------------
(* The key-value store (db.KVStore) *)

EmptyNS == [k \in {} |-> <<>>]

EmptyStore == [ns \in Namespaces |-> EmptyNS]

Has(st, ns, key) == key \in DOMAIN st[ns]

\* KVStore.Get: the value, a missing key, or a backend failure
Get(st, ns, key, fail) ==
    IF fail THEN [err |-> "backend", value |-> <<>>]
    ELSE IF Has(st, ns, key) THEN [err |-> "none", value |-> st[ns][key]]
    ELSE [err |-> "notexist", value |-> <<>>]

\* the store with the key set to the value (an existing value is replaced)
Set(st, ns, key, value) == [st EXCEPT ![ns] = (key :> value) @@ @]

\* KVStore.PutIfNotExists: ok, already-exists, or a backend failure
PutIfNotExists(st, ns, key, value, fail) ==
    IF fail THEN [err |-> "backend", store |-> st]
    ELSE IF Has(st, ns, key) THEN [err |-> "alreadyexist", store |-> st]
    ELSE [err |-> "none", store |-> Set(st, ns, key, value)]

\* KVStoreBatch.Put / KVStoreBatch.PutIfNotExists: stage one write
BatchPut(batch, ns, key, value) ==
    Append(batch, [writeType |-> "Put", namespace |-> ns, key |-> key, value |-> value])

BatchPutIfNotExists(batch, ns, key, value) ==
    Append(batch, [writeType |-> "PutIfNotExists", namespace |-> ns, key |-> key,
                   value |-> value])

\* one staged write applied to the store: a conditional insert that collides
\* leaves the stored value untouched
ApplyWrite(st, w) ==
    IF w.writeType = "PutIfNotExists" /\ Has(st, w.namespace, w.key)
    THEN st
    ELSE Set(st, w.namespace, w.key, w.value)

RECURSIVE ApplyBatch(_, _)
ApplyBatch(st, batch) ==
    IF batch = <<>> THEN st
    ELSE ApplyBatch(ApplyWrite(st, Head(batch)), Tail(batch))

\* KVStoreBatch.Commit: applies the staged writes atomically, in order, or
\* fails as a whole and leaves the store unchanged
Commit(st, batch, fail) ==
    IF fail THEN [err |-> "commit", store |-> st]
    ELSE [err |-> "none", store |-> ApplyBatch(st, batch)]

-----------------------------------------------------------------------------
(* Injected faults: the call of the handler at which the backend fails *)

Fault(site, idx) == [site |-> site, idx |-> idx]

NoFault == Fault("none", 0)

At(fault, site, idx) == fault.site = site /\ fault.idx = idx

PutFaults(blk) ==
    { Fault(s, 0) : s \in {"none", "topHeight", "totalTransfers", "totalVotes", "commit"} }
        \cup { Fault(s, i) : s \in {"transferFrom", "transferTo"}, i \in 1..Len(blk.Transfers) }
        \cup { Fault(s, i) : s \in {"voteFrom", "voteTo"}, i \in 1..Len(blk.Votes) }

\* the faults injected into concurrent calls: a failed read of a singleton
\* counter or a failed commit (the failed reads of the per-address counters
\* are left to the single writer)
ConcurrentFaults ==
    { Fault(s, 0) : s \in {"none", "topHeight", "totalTransfers", "totalVotes", "commit"} }

StartFaults ==
    { Fault(s, 0) : s \in {"none", "onStart", "topHeight", "totalTransfers", "totalVotes"} }

-----------------------------------------------------------------------------
(* Read API *)

Ok(v) == [err |-> "none", value |-> v]
Err(e, v) == [err |-> e, value |-> v]

\* errors.Wrap: the error annotated with a message; Wrap of nil is nil
Wrap(err, message) == IF err = "none" THEN "none" ELSE err

\* the length check wraps the error of the Get, which is nil at that point
getBlockHash(st, height, fail) ==
    LET r == Get(st, blockHashHeightMappingNS, Key(heightPrefix, Uint64ToBytes(height)), fail)
    IN  IF r.err # "none" THEN Err(Wrap(r.err, "failed to get block hash"), ZeroHash32B)
        ELSE IF HashLen # Len(r.value)
             THEN Err(Wrap(r.err, "blockhash is broken"), ZeroHash32B)
        ELSE Ok(CopyHash(r.value))

getBlockHeight(st, hash, fail) ==
    LET r == Get(st, blockHashHeightMappingNS, Key(hashPrefix, hash), fail)
    IN  IF r.err # "none" THEN Err(r.err, 0)
        ELSE IF Len(r.value) = 0 THEN Err("notexist", 0)
        ELSE Ok(Uint64(r.value))

getBlock(st, hash, fail) ==
    LET r == Get(st, blockNS, Key("", hash), fail)
    IN  IF r.err # "none" THEN [err |-> r.err, blk |-> Block(0, 0, <<>>, <<>>)]
        ELSE IF Len(r.value) = 0 THEN [err |-> "notexist", blk |-> Block(0, 0, <<>>, <<>>)]
        ELSE Deserialize(r.value)

\* getBlockHashByTransferHash answering a failed Get with the zero hash
getBlockHashByTransferHashDefault(st, h, fail) ==
    LET r == Get(st, blockTransferBlockMappingNS, Key(transferPrefix, h), fail)
    IN  IF r.err # "none" THEN Ok(ZeroHash32B)
        ELSE IF Len(r.value) = 0 THEN Err("notexist", ZeroHash32B)
        ELSE Ok(CopyHash(r.value))

getBlockHashByTransferHash(st, h, fail) ==
    LET r == Get(st, blockTransferBlockMappingNS, Key(transferPrefix, h), fail)
    IN  IF r.err # "none" THEN Err(r.err, ZeroHash32B)
        ELSE IF Len(r.value) = 0 THEN Err("notexist", ZeroHash32B)
        ELSE Ok(CopyHash(r.value))

getBlockHashByVoteHash(st, h, fail) ==
    LET r == Get(st, blockVoteBlockMappingNS, Key(votePrefix, h), fail)
    IN  IF r.err # "none" THEN Err(r.err, ZeroHash32B)
        ELSE IF Len(r.value) = 0 THEN Err("notexist", ZeroHash32B)
        ELSE Ok(CopyHash(r.value))

\* a count getter that returns every error of Get, the missing key included
getCountByAddressStrict(st, countNS, prefix, address, fail) ==
    LET r == Get(st, countNS, Key(prefix, address), fail)
    IN  IF r.err # "none" THEN Err(r.err, 0)
        ELSE IF Len(r.value) = 0 THEN Err("broken", 0)
        ELSE Ok(Uint64(r.value))

\* the four count getters share one body: any error of Get is answered (0, nil)
getCountByAddress(st, countNS, prefix, address, fail) ==
    LET r == Get(st, countNS, Key(prefix, address), fail)
    IN  IF r.err # "none" THEN Ok(0)
        ELSE IF Len(r.value) = 0 THEN Err("broken", 0)
        ELSE Ok(Uint64(r.value))

getTransferCountBySenderAddress(st, address, fail) ==
    getCountByAddress(st, blockAddressTransferCountMappingNS, transferFromPrefix, address, fail)

getTransferCountByRecipientAddress(st, address, fail) ==
    getCountByAddress(st, blockAddressTransferCountMappingNS, transferToPrefix, address, fail)

getVoteCountBySenderAddress(st, address, fail) ==
    getCountByAddress(st, blockAddressVoteCountMappingNS, voteFromPrefix, address, fail)

getVoteCountByRecipientAddress(st, address, fail) ==
    getCountByAddress(st, blockAddressVoteCountMappingNS, voteToPrefix, address, fail)

\* the loop of getTransfersByAddress / getVotesByAddress from sequence i on;
\* failAt is the sequence number whose Get fails (-1: none)
RECURSIVE getByAddressLoop(_, _, _, _, _, _, _, _)
getByAddressLoop(st, mapNS, address, count, keyPrefix, i, res, failAt) ==
    IF i >= count THEN Ok(res)
    ELSE LET r == Get(st, mapNS, Key(keyPrefix, address \o Uint64ToBytes(i)), failAt = i)
         IN  IF r.err # "none" THEN Err(r.err, res)
             ELSE IF Len(r.value) = 0 THEN Err("notexist", res)
             ELSE getByAddressLoop(st, mapNS, address, count, keyPrefix, i + 1,
                                   Append(res, CopyHash(r.value)), failAt)

getTransfersByAddress(st, address, count, keyPrefix, failAt) ==
    getByAddressLoop(st, blockAddressTransferMappingNS, address, count, keyPrefix, 0, <<>>, failAt)

getVotesByAddress(st, address, count, keyPrefix, failAt) ==
    getByAddressLoop(st, blockAddressVoteMappingNS, address, count, keyPrefix, 0, <<>>, failAt)

getTransfersBySenderAddress(st, address) ==
    LET c == getTransferCountBySenderAddress(st, address, FALSE)
    IN  IF c.err # "none" THEN Err(c.err, <<>>)
        ELSE LET r == getTransfersByAddress(st, address, c.value, transferFromPrefix, -1)
             IN  IF r.err # "none" THEN Err(r.err, <<>>) ELSE r

getTransfersByRecipientAddress(st, address) ==
    LET c == getTransferCountByRecipientAddress(st, address, FALSE)
    IN  IF c.err # "none" THEN Err(c.err, <<>>)
        ELSE LET r == getTransfersByAddress(st, address, c.value, transferToPrefix, -1)
             IN  IF r.err # "none" THEN Err(r.err, <<>>) ELSE r

getVotesBySenderAddress(st, address) ==
    LET c == getVoteCountBySenderAddress(st, address, FALSE)
    IN  IF c.err # "none" THEN Err(c.err, <<>>)
        ELSE LET r == getVotesByAddress(st, address, c.value, voteFromPrefix, -1)
             IN  IF r.err # "none" THEN Err(r.err, <<>>) ELSE r

getVotesByRecipientAddress(st, address) ==
    LET c == getVoteCountByRecipientAddress(st, address, FALSE)
    IN  IF c.err # "none" THEN Err(c.err, <<>>)
        ELSE LET r == getVotesByAddress(st, address, c.value, voteToPrefix, -1)
             IN  IF r.err # "none" THEN Err(r.err, <<>>) ELSE r

getSingleton(st, key, fail) ==
    LET r == Get(st, blockNS, key, fail)
    IN  IF r.err # "none" THEN Err(r.err, 0)
        ELSE IF Len(r.value) = 0 THEN Err("notexist", 0)
        ELSE Ok(Uint64(r.value))

getBlockchainHeight(st, fail) == getSingleton(st, topHeightKey, fail)

getTotalTransfers(st, fail) == getSingleton(st, totalTransfersKey, fail)

getTotalVotes(st, fail) == getSingleton(st, totalVotesKey, fail)

-----------------------------------------------------------------------------
(* Write API: putBlock *)

\* stageBlock with the hash -> height mapping filed under the height prefix
stageBlockWrongPrefix(blk) ==
    LET height == Uint64ToBytes(blk.height)
        b1 == BatchPutIfNotExists(<<>>, blockNS, Key("", blk.hash), Serialize(blk))
        b2 == BatchPut(b1, blockHashHeightMappingNS, Key(heightPrefix, blk.hash), height)
    IN  BatchPut(b2, blockHashHeightMappingNS, Key(heightPrefix, height), blk.hash)

\* stageBlock with the height -> hash mapping as a conditional insert
stageBlockFirstWins(blk) ==
    LET height == Uint64ToBytes(blk.height)
        b1 == BatchPutIfNotExists(<<>>, blockNS, Key("", blk.hash), Serialize(blk))
        b2 == BatchPut(b1, blockHashHeightMappingNS, Key(hashPrefix, blk.hash), height)
    IN  BatchPutIfNotExists(b2, blockHashHeightMappingNS, Key(heightPrefix, height), blk.hash)

\* stageBlock with the payload written unconditionally under the height
stageBlockUnderHeight(blk) ==
    LET height == Uint64ToBytes(blk.height)
        b1 == BatchPut(<<>>, blockNS, Key("", height), Serialize(blk))
        b2 == BatchPut(b1, blockHashHeightMappingNS, Key(hashPrefix, blk.hash), height)
    IN  BatchPut(b2, blockHashHeightMappingNS, Key(heightPrefix, height), blk.hash)

\* the block payload (conditional insert) and the hash <-> height mappings
stageBlock(blk) ==
    LET height == Uint64ToBytes(blk.height)
        b1 == BatchPutIfNotExists(<<>>, blockNS, Key("", blk.hash), Serialize(blk))
        b2 == BatchPut(b1, blockHashHeightMappingNS, Key(hashPrefix, blk.hash), height)
    IN  BatchPut(b2, blockHashHeightMappingNS, Key(heightPrefix, height), blk.hash)

\* stageTopHeight without the comparison: the last block sets the top height
stageTopHeightAlways(batch, blk, topHeight) ==
    BatchPut(batch, blockNS, topHeightKey, Uint64ToBytes(blk.height))

\* the top height is raised only by a block above it
stageTopHeight(batch, blk, topHeight) ==
    IF blk.height > topHeight
    THEN BatchPut(batch, blockNS, topHeightKey, Uint64ToBytes(blk.height))
    ELSE batch

\* stageTotal that stores the number of entries of the block as the total
stageTotalOverwrite(batch, key, total, n) ==
    BatchPut(batch, blockNS, key, Uint64ToBytes(n))

\* a singleton total bumped by the number of entries of the block
stageTotal(batch, key, total, n) ==
    BatchPut(batch, blockNS, key, Uint64ToBytes(total + n))

RECURSIVE stageHashMapping(_, _, _, _, _)
stageHashMapping(batch, ns, prefix, entries, hash) ==
    IF entries = <<>> THEN batch
    ELSE stageHashMapping(BatchPut(batch, ns, Key(prefix, Head(entries).hash), hash),
                          ns, prefix, Tail(entries), hash)

\* stageBlockMappings as conditional inserts: the first block of a hash stays
stageBlockMappingsFirstWins(batch, blk) ==
    LET RECURSIVE stage(_, _, _, _)
        stage(b, ns, prefix, entries) ==
            IF entries = <<>> THEN b
            ELSE stage(BatchPutIfNotExists(b, ns, Key(prefix, Head(entries).hash), blk.hash),
                       ns, prefix, Tail(entries))
    IN  stage(stage(batch, blockTransferBlockMappingNS, transferPrefix, blk.Transfers),
              blockVoteBlockMappingNS, votePrefix, blk.Votes)

\* transfer hash -> block hash, then vote hash -> block hash
stageBlockMappings(batch, blk) ==
    stageHashMapping(
        stageHashMapping(batch, blockTransferBlockMappingNS, transferPrefix,
                         blk.Transfers, blk.hash),
        blockVoteBlockMappingNS, votePrefix, blk.Votes, blk.hash)

\* the sequence number of the next entry of an address: the on-disk count
\* plus the entries staged for it earlier in the same block
nextSequence(count, delta, address) ==
    IF address \in DOMAIN delta THEN count + delta[address] ELSE count

bumpDelta(delta, address) ==
    (address :> (IF address \in DOMAIN delta THEN delta[address] + 1 ELSE 1)) @@ delta

\* one side (sender or recipient) of one transfer or vote: read the count,
\* stage the index entry conditionally and the bumped count unconditionally
stageAddressEntry(st, batch, delta, mapNS, countNS, prefix, address, h, fail) ==
    LET c == getCountByAddress(st, countNS, prefix, address, fail)
    IN  IF c.err # "none" THEN [err |-> c.err, batch |-> batch, delta |-> delta]
        ELSE LET seq == nextSequence(c.value, delta, address)
                 b1 == BatchPutIfNotExists(batch, mapNS,
                                           Key(prefix, address \o Uint64ToBytes(seq)), h)
             IN  [err |-> "none",
                  batch |-> BatchPut(b1, countNS, Key(prefix, address), Uint64ToBytes(seq + 1)),
                  delta |-> bumpDelta(delta, address)]

RECURSIVE putTransfersLoop(_, _, _, _, _, _, _)
putTransfersLoop(st, blk, i, batch, senderDelta, recipientDelta, fault) ==
    IF i > Len(blk.Transfers) THEN [err |-> "none", batch |-> batch]
    ELSE LET transfer == blk.Transfers[i]
             s == stageAddressEntry(st, batch, senderDelta, blockAddressTransferMappingNS,
                                    blockAddressTransferCountMappingNS, transferFromPrefix,
                                    transfer.Sender, transfer.hash,
                                    At(fault, "transferFrom", i))
         IN  IF s.err # "none" THEN [err |-> s.err, batch |-> s.batch]
             ELSE LET r == stageAddressEntry(st, s.batch, recipientDelta,
                                    blockAddressTransferMappingNS,
                                    blockAddressTransferCountMappingNS, transferToPrefix,
                                    transfer.Recipient, transfer.hash,
                                    At(fault, "transferTo", i))
                  IN  IF r.err # "none" THEN [err |-> r.err, batch |-> r.batch]
                      ELSE putTransfersLoop(st, blk, i + 1, r.batch, s.delta, r.delta, fault)

putTransfers(st, blk, batch, fault) ==
    putTransfersLoop(st, blk, 1, batch, EmptyNS, EmptyNS, fault)

\* putVotesLoop that skips a vote whose address derivation fails
RECURSIVE putVotesLoopSkipping(_, _, _, _, _, _, _)
putVotesLoopSkipping(st, blk, i, batch, senderDelta, recipientDelta, fault) ==
    IF i > Len(blk.Votes) THEN [err |-> "none", batch |-> batch]
    ELSE LET vote == blk.Votes[i]
             SenderAddress == GetAddress(vote.SelfPubkey)
             RecipientAddress == GetAddress(vote.VotePubkey)
         IN  IF SenderAddress.err # "none" \/ RecipientAddress.err # "none"
             THEN putVotesLoopSkipping(st, blk, i + 1, batch, senderDelta, recipientDelta,
                                       fault)
             ELSE LET s == stageAddressEntry(st, batch, senderDelta,
                                    blockAddressVoteMappingNS,
                                    blockAddressVoteCountMappingNS, voteFromPrefix,
                                    SenderAddress.RawAddress, vote.hash,
                                    At(fault, "voteFrom", i))
                  IN  IF s.err # "none" THEN [err |-> s.err, batch |-> s.batch]
                      ELSE LET r == stageAddressEntry(st, s.batch, recipientDelta,
                                    blockAddressVoteMappingNS,
                                    blockAddressVoteCountMappingNS, voteToPrefix,
                                    RecipientAddress.RawAddress, vote.hash,
                                    At(fault, "voteTo", i))
                           IN  IF r.err # "none" THEN [err |-> r.err, batch |-> r.batch]
                               ELSE putVotesLoopSkipping(st, blk, i + 1, r.batch, s.delta,
                                                         r.delta, fault)

RECURSIVE putVotesLoop(_, _, _, _, _, _, _)
putVotesLoop(st, blk, i, batch, senderDelta, recipientDelta, fault) ==
    IF i > Len(blk.Votes) THEN [err |-> "none", batch |-> batch]
    ELSE LET vote == blk.Votes[i]
             SenderAddress == GetAddress(vote.SelfPubkey)
             RecipientAddress == GetAddress(vote.VotePubkey)
         IN  IF SenderAddress.err # "none" THEN [err |-> SenderAddress.err, batch |-> batch]
             ELSE IF RecipientAddress.err # "none"
                  THEN [err |-> RecipientAddress.err, batch |-> batch]
             ELSE LET s == stageAddressEntry(st, batch, senderDelta,
                                    blockAddressVoteMappingNS,
                                    blockAddressVoteCountMappingNS, voteFromPrefix,
                                    SenderAddress.RawAddress, vote.hash,
                                    At(fault, "voteFrom", i))
                  IN  IF s.err # "none" THEN [err |-> s.err, batch |-> s.batch]
                      ELSE LET r == stageAddressEntry(st, s.batch, recipientDelta,
                                    blockAddressVoteMappingNS,
                                    blockAddressVoteCountMappingNS, voteToPrefix,
                                    RecipientAddress.RawAddress, vote.hash,
                                    At(fault, "voteTo", i))
                           IN  IF r.err # "none" THEN [err |-> r.err, batch |-> r.batch]
                               ELSE putVotesLoop(st, blk, i + 1, r.batch, s.delta, r.delta,
                                                 fault)

putVotes(st, blk, batch, fault) ==
    putVotesLoop(st, blk, 1, batch, EmptyNS, EmptyNS, fault)

\* an early return that lets the staged batch through
abandonCommitted(st, batch, err) == [err |-> err, store |-> ApplyBatch(st, batch)]

\* an early return of putBlock: the staged batch is dropped uncommitted
abandon(st, batch, err) == [err |-> err, store |-> st]

\* putBlock up to the commit: every read of the store and the batch staged
\* from it, or the error of the first read or derivation that fails
stagePutBlock(st, blk, fault) ==
    LET b1 == stageBlock(blk)
        top == Get(st, blockNS, topHeightKey, At(fault, "topHeight", 0))
    IN  IF top.err # "none" THEN [err |-> top.err, batch |-> b1]
        ELSE
        LET b2 == stageTopHeight(b1, blk, Uint64(top.value))
            tt == Get(st, blockNS, totalTransfersKey, At(fault, "totalTransfers", 0))
        IN  IF tt.err # "none" THEN [err |-> tt.err, batch |-> b2]
            ELSE
            LET b3 == stageTotal(b2, totalTransfersKey, Uint64(tt.value), Len(blk.Transfers))
                tv == Get(st, blockNS, totalVotesKey, At(fault, "totalVotes", 0))
            IN  IF tv.err # "none" THEN [err |-> tv.err, batch |-> b3]
                ELSE
                LET b4 == stageTotal(b3, totalVotesKey, Uint64(tv.value), Len(blk.Votes))
                    b5 == stageBlockMappings(b4, blk)
                    pt == putTransfers(st, blk, b5, fault)
                IN  IF pt.err # "none" THEN pt
                    ELSE putVotes(st, blk, pt.batch, fault)

\* putBlock: the error returned and the store it leaves
putBlock(st, blk, fault) ==
    LET staged == stagePutBlock(st, blk, fault)
    IN  IF staged.err # "none" THEN abandon(st, staged.batch, staged.err)
        ELSE Commit(st, staged.batch, At(fault, "commit", 0))

-----------------------------------------------------------------------------
(* Lifecycle: Start and Stop *)

\* Start with the three singleton keys written unconditionally
startDAOReset(st, run, fault) ==
    IF At(fault, "onStart", 0) THEN [err |-> "onStart", store |-> st, started |-> run]
    ELSE [err |-> "none",
          store |-> Set(Set(Set(st, blockNS, topHeightKey, ZeroBytes8),
                            blockNS, totalTransfersKey, ZeroBytes8),
                        blockNS, totalVotesKey, ZeroBytes8),
          started |-> TRUE]

\* Start that reports the collision on top-height like any other store error
startDAOStrict(st, run, fault) ==
    IF At(fault, "onStart", 0) THEN [err |-> "onStart", store |-> st, started |-> run]
    ELSE
    LET p1 == PutIfNotExists(st, blockNS, topHeightKey, ZeroBytes8, At(fault, "topHeight", 0))
        p2 == PutIfNotExists(p1.store, blockNS, totalTransfersKey, ZeroBytes8,
                             At(fault, "totalTransfers", 0))
        p3 == PutIfNotExists(p2.store, blockNS, totalVotesKey, ZeroBytes8,
                             At(fault, "totalVotes", 0))
    IN  IF p1.err # "none" THEN [err |-> p1.err, store |-> p1.store, started |-> TRUE]
        ELSE IF p2.err # "none" THEN [err |-> p2.err, store |-> p2.store, started |-> TRUE]
        ELSE [err |-> p3.err, store |-> p3.store, started |-> TRUE]

\* Start: the error returned, the store it leaves and whether the KV store runs
startDAO(st, run, fault) ==
    IF At(fault, "onStart", 0) THEN [err |-> "onStart", store |-> st, started |-> run]
    ELSE
    LET p1 == PutIfNotExists(st, blockNS, topHeightKey, ZeroBytes8, At(fault, "topHeight", 0))
    IN  IF p1.err = "alreadyexist" THEN [err |-> "none", store |-> p1.store, started |-> TRUE]
        ELSE IF p1.err # "none" THEN [err |-> p1.err, store |-> p1.store, started |-> TRUE]
        ELSE
        LET p2 == PutIfNotExists(p1.store, blockNS, totalTransfersKey, ZeroBytes8,
                                 At(fault, "totalTransfers", 0))
        IN  IF p2.err # "none" THEN [err |-> p2.err, store |-> p2.store, started |-> TRUE]
            ELSE
            LET p3 == PutIfNotExists(p2.store, blockNS, totalVotesKey, ZeroBytes8,
                                     At(fault, "totalVotes", 0))
            IN  IF p3.err # "none"
                THEN [err |-> p3.err, store |-> p3.store, started |-> TRUE]
                ELSE [err |-> "none", store |-> p3.store, started |-> TRUE]

-----------------------------------------------------------------------------
(* The state machine *)

Outcome(op, err, blk, fault, st) ==
    [op |-> op, err |-> err, blk |-> blk, fault |-> fault,
     \* what the call found: whether the block's hash was stored, and the top height
     reput |-> IF blk \in BlockIds THEN Has(st, blockNS, Key("", Blk(blk).hash)) ELSE FALSE,
     top |-> getBlockchainHeight(st, FALSE).value]

\* the callers of putBlock
Writers == {"w1", "w2"}

Idle == [pc |-> "idle"]

Init ==
    /\ store = EmptyStore
    /\ started = FALSE
    /\ puts = <<>>
    /\ nputs = 0
    /\ nstarts = 0
    /\ result = Outcome("none", "none", "none", NoFault, EmptyStore)
    /\ inflight = [w \in Writers |-> Idle]
    /\ overlapped = FALSE
    /\ reader = Idle

Start ==
    /\ nstarts < MaxStarts
    /\ \E fault \in StartFaults :
        LET r == startDAO(store, started, fault)
        IN  /\ store' = r.store
            /\ started' = r.started
            /\ result' = Outcome("Start", r.err, "none", fault, store)
    /\ nstarts' = nstarts + 1
    /\ UNCHANGED <<puts, nputs, inflight, overlapped, reader>>

Stop ==
    /\ started
    /\ started' = FALSE
    /\ result' = Outcome("Stop", "none", "none", NoFault, store)
    /\ UNCHANGED <<store, puts, nputs, nstarts, inflight, overlapped, reader>>

PutBlock ==
    /\ started
    /\ nputs < MaxPuts
    /\ \E id \in BlockIds : \E fault \in PutFaults(Blk(id)) :
        LET r == putBlock(store, Blk(id), fault)
        IN  /\ store' = r.store
            /\ puts' = IF r.err = "none" THEN Append(puts, id) ELSE puts
            /\ result' = Outcome("putBlock", r.err, id, fault, store)
    /\ nputs' = nputs + 1
    /\ UNCHANGED <<started, nstarts, inflight, overlapped, reader>>

Next == Start \/ Stop \/ PutBlock

Spec == Init /\ [][Next]_vars

\* the heights of the blocks of the model
Heights == { Blk(id).height : id \in BlockIds }

\* Schema damage: the hash stored under the height key of a block loses its
\* last byte
Damage ==
    /\ \E height \in Heights :
        LET key == Key(heightPrefix, Uint64ToBytes(height))
        IN  /\ Has(store, blockHashHeightMappingNS, key)
            /\ Len(store[blockHashHeightMappingNS][key]) = HashLen
            /\ store' = Set(store, blockHashHeightMappingNS, key,
                            SubSeq(store[blockHashHeightMappingNS][key], 1, HashLen - 1))
    /\ result' = Outcome("Damage", "none", "none", NoFault, store)
    /\ UNCHANGED <<started, puts, nputs, nstarts, inflight, overlapped, reader>>

NextDamaged == Next \/ Damage

\* the DAO over a store that can suffer schema damage
SpecDamaged == Init /\ [][NextDamaged]_vars

\* Concurrent callers of putBlock.  A call first reads the store and stages
\* its batch (the reads of one call are taken together), and commits the
\* batch in a later step; calls of other writers can fall in between.
StagePutBlock(w) ==
    /\ started
    /\ nputs < MaxPuts
    /\ inflight[w] = Idle
    /\ \E id \in BlockIds : \E fault \in ConcurrentFaults :
        LET staged == stagePutBlock(store, Blk(id), fault)
        IN  IF staged.err # "none"
            THEN /\ result' = Outcome("putBlock", staged.err, id, fault, store)
                 /\ inflight' = inflight
            ELSE /\ result' = result
                 /\ inflight' = [inflight EXCEPT ![w] =
                        [pc |-> "staged", blk |-> id, batch |-> staged.batch,
                         fault |-> fault]]
    /\ overlapped' = (overlapped \/ \E v \in Writers \ {w} : inflight[v] # Idle)
    /\ nputs' = nputs + 1
    /\ UNCHANGED <<store, started, puts, nstarts, reader>>

CommitPutBlock(w) ==
    /\ started
    /\ inflight[w] # Idle
    /\ LET call == inflight[w]
           r == Commit(store, call.batch, At(call.fault, "commit", 0))
       IN  /\ store' = r.store
           /\ puts' = IF r.err = "none" THEN Append(puts, call.blk) ELSE puts
           /\ result' = Outcome("putBlock", r.err, call.blk, call.fault, store)
    /\ inflight' = [inflight EXCEPT ![w] = Idle]
    /\ UNCHANGED <<started, nputs, nstarts, overlapped, reader>>

\* the DAO after its first Start on a fresh store
InitStarted ==
    /\ store = startDAO(EmptyStore, FALSE, NoFault).store
    /\ started = TRUE
    /\ puts = <<>>
    /\ nputs = 0
    /\ nstarts = 1
    /\ result = Outcome("Start", "none", "none", NoFault, EmptyStore)
    /\ inflight = [w \in Writers |-> Idle]
    /\ overlapped = FALSE
    /\ reader = Idle

NextConcurrent ==
    \/ \E w \in Writers : StagePutBlock(w)
    \/ \E w \in Writers : CommitPutBlock(w)

\* the started DAO with two concurrent callers of putBlock
SpecConcurrent == InitStarted /\ [][NextConcurrent]_vars

\* One caller of putBlock and one reader.  The writer is the only one in
\* flight; any read of its call can fail as under the single writer.
StageSoleWriter ==
    /\ started
    /\ nputs < MaxPuts
    /\ \A w \in Writers : inflight[w] = Idle
    /\ \E id \in BlockIds : \E fault \in PutFaults(Blk(id)) :
        LET staged == stagePutBlock(store, Blk(id), fault)
        IN  IF staged.err # "none"
            THEN /\ result' = Outcome("putBlock", staged.err, id, fault, store)
                 /\ inflight' = inflight
            ELSE /\ result' = result
                 /\ inflight' = [inflight EXCEPT !["w1"] =
                        [pc |-> "staged", blk |-> id, batch |-> staged.batch,
                         fault |-> fault]]
    /\ nputs' = nputs + 1
    /\ UNCHANGED <<store, started, puts, nstarts, overlapped, reader>>

CommitSoleWriter == CommitPutBlock("w1")

\* whether a putBlock call is or was in flight since the reader's last step
WriterSeen(calls) == nputs # calls \/ \E w \in Writers : inflight[w] # Idle

\* getTransfersBySenderAddress, first read: the sender counter of the address
ReadCount ==
    /\ started
    /\ reader = Idle
    /\ \E address \in Addresses :
        LET c == getTransferCountBySenderAddress(store, address, FALSE)
        IN  reader' = IF c.err # "none"
                      THEN [pc |-> "done", address |-> address, err |-> c.err, res |-> <<>>,
                            overlap |-> WriterSeen(nputs), calls |-> nputs]
                      ELSE [pc |-> "entries", address |-> address, count |-> c.value,
                            i |-> 0, res |-> <<>>,
                            overlap |-> WriterSeen(nputs), calls |-> nputs]
    /\ UNCHANGED <<store, started, puts, nputs, nstarts, result, inflight, overlapped>>

\* getTransfersByAddress, one turn of the loop: the Get of entry i, or the
\* return once i reaches the count
ReadEntry ==
    /\ started
    /\ reader # Idle
    /\ reader.pc = "entries"
    /\ LET seen == reader.overlap \/ WriterSeen(reader.calls)
           done(err, res) == [pc |-> "done", address |-> reader.address, err |-> err,
                              res |-> res, overlap |-> seen, calls |-> nputs]
           r == Get(store, blockAddressTransferMappingNS,
                    Key(transferFromPrefix, reader.address \o Uint64ToBytes(reader.i)), FALSE)
       IN  reader' =
             IF reader.i >= reader.count THEN done("none", reader.res)
             ELSE IF r.err # "none" THEN done(r.err, <<>>)
             ELSE IF Len(r.value) = 0 THEN done("notexist", <<>>)
             ELSE [reader EXCEPT !.i = @ + 1, !.res = Append(@, CopyHash(r.value)),
                                 !.overlap = seen, !.calls = nputs]
    /\ UNCHANGED <<store, started, puts, nputs, nstarts, result, inflight, overlapped>>

NextReader == StageSoleWriter \/ CommitSoleWriter \/ ReadCount \/ ReadEntry

\* the started DAO with one caller of putBlock and one reader of an address
SpecReader == InitStarted /\ [][NextReader]_vars

-----------------------------------------------------------------------------
(* Properties *)

\* the blocks whose putBlock returned nil
Stored == { Blk(puts[i]) : i \in DOMAIN puts }

Max(S) == CHOOSE x \in S : \A y \in S : y <= x

\* the last block put at the height of the i-th successful putBlock
LastPutAtHeightOf(i) ==
    Blk(puts[Max({ j \in DOMAIN puts : Blk(puts[j]).height = Blk(puts[i]).height })])

\* C1: a putBlock call that returns an error (a failed read while staging, a
\* failed address derivation, a failed commit) leaves every namespace of the
\* store exactly as it was before the call.
C1_FailedPutBlockLeavesStore ==
    [][(result'.op = "putBlock" /\ result'.err # "none") => store' = store]_vars

\* a putBlock on a store that holds blocks failed at the commit of its batch
C1_Witness ==
    /\ result.op = "putBlock"
    /\ result.err = "commit"
    /\ puts # <<>>

\* C2: for every block B whose putBlock succeeded, getBlock(hash(B)) returns B
\* and getBlockHeight(hash(B)) returns height(B).
C2_BlockReadBack ==
    \A B \in Stored :
        /\ getBlock(store, B.hash, FALSE) = [err |-> "none", blk |-> B]
        /\ getBlockHeight(store, B.hash, FALSE) = Ok(B.height)

\* two different blocks were put, the higher one first
C2_Witness ==
    /\ Len(puts) = 2
    /\ Blk(puts[1]).height > Blk(puts[2]).height
    /\ getBlock(store, Blk(puts[2]).hash, FALSE).err = "none"

\* C3 as claimed: for every stored block B, whatever heights the caller
\* supplied, getBlockHash(height(B)) returns hash(B).
C3_HeightToHashOfEveryBlock ==
    \A B \in Stored : getBlockHash(store, B.height, FALSE) = Ok(B.hash)

\* C3 amended: for every stored block B, getBlockHash(height(B)) returns the
\* hash of the block most recently put at height(B); it is hash(B) when no
\* other block was put at that height after B.
C3_HeightToHashOfLastBlock ==
    \A i \in DOMAIN puts :
        getBlockHash(store, Blk(puts[i]).height, FALSE) = Ok(LastPutAtHeightOf(i).hash)

\* two different blocks of the same height were put one after the other
C3_Witness ==
    /\ Len(puts) = 2
    /\ puts[1] # puts[2]
    /\ Blk(puts[1]).height = Blk(puts[2]).height
    /\ getBlockHash(store, Blk(puts[1]).height, FALSE) = Ok(Blk(puts[2]).hash)

\* C4: getBlockchainHeight() is the maximum height over the stored blocks (0
\* when none is stored) once Start has seeded it, no block is stored before
\* that, and a putBlock at or below the top height stores and indexes the
\* block and leaves the top height as it was.
C4_TopHeightIsMax ==
    /\ IF Has(store, blockNS, topHeightKey)
       THEN getBlockchainHeight(store, FALSE)
                = Ok(Max({ B.height : B \in Stored } \cup {0}))
       ELSE puts = <<>>
    /\ (result.op = "putBlock" /\ result.err = "none"
            /\ Blk(result.blk).height <= result.top)
        => /\ getBlockchainHeight(store, FALSE) = Ok(result.top)
           /\ getBlock(store, Blk(result.blk).hash, FALSE).err = "none"
           /\ getBlockHeight(store, Blk(result.blk).hash, FALSE)
                = Ok(Blk(result.blk).height)
           /\ getBlockHash(store, Blk(result.blk).height, FALSE)
                = Ok(Blk(result.blk).hash)

\* a block was put below the top height
C4_Witness ==
    /\ result.op = "putBlock"
    /\ result.err = "none"
    /\ Blk(result.blk).height < result.top
    /\ Len(puts) = 2

-----------------------------------------------------------------------------

RECURSIVE SumOver(_, _)
SumOver(S, votes) ==
    IF S = {} THEN 0
    ELSE LET B == CHOOSE x \in S : TRUE
         IN  (IF votes THEN Len(B.Votes) ELSE Len(B.Transfers)) + SumOver(S \ {B}, votes)

\* C5 as claimed: getTotalTransfers() is the sum of the number of transfers
\* over the stored blocks, and getTotalVotes() that of the votes.
C5_TotalsAreSumsOverStored ==
    /\ getTotalTransfers(store, FALSE).err = "none"
        => getTotalTransfers(store, FALSE).value = SumOver(Stored, FALSE)
    /\ getTotalVotes(store, FALSE).err = "none"
        => getTotalVotes(store, FALSE).value = SumOver(Stored, TRUE)

\* the entries one block adds to the index of an address: the hashes of its
\* transfers (or votes) of which the address is the sender (or recipient)
RECURSIVE HashesOf(_, _, _, _)
HashesOf(entries, votes, from, address) ==
    IF entries = <<>> THEN <<>>
    ELSE LET e == Head(entries)
             party == IF votes
                      THEN GetAddress(IF from THEN e.SelfPubkey ELSE e.VotePubkey).RawAddress
                      ELSE (IF from THEN e.Sender ELSE e.Recipient)
         IN  (IF party = address THEN <<e.hash>> ELSE <<>>)
                 \o HashesOf(Tail(entries), votes, from, address)

\* the index of an address after the successful putBlock calls i.. in call order
RECURSIVE Inserted(_, _, _, _)
Inserted(i, votes, from, address) ==
    IF i > Len(puts) THEN <<>>
    ELSE HashesOf(IF votes THEN Blk(puts[i]).Votes ELSE Blk(puts[i]).Transfers,
                  votes, from, address)
             \o Inserted(i + 1, votes, from, address)

\* C6 as claimed: for every address and direction the transfer count is the
\* number of transfers of the inserted blocks the address sends (receives),
\* and the enumeration returns their hashes in insertion order.
C6_TransferIndexInInsertionOrder ==
    \A A \in Addresses :
        /\ getTransferCountBySenderAddress(store, A, FALSE)
                = Ok(Len(Inserted(1, FALSE, TRUE, A)))
        /\ getTransfersBySenderAddress(store, A) = Ok(Inserted(1, FALSE, TRUE, A))
        /\ getTransferCountByRecipientAddress(store, A, FALSE)
                = Ok(Len(Inserted(1, FALSE, FALSE, A)))
        /\ getTransfersByRecipientAddress(store, A) = Ok(Inserted(1, FALSE, FALSE, A))

\* the four per-address indexes: entry namespace, count namespace, prefix
AddressIndexes ==
    { <<blockAddressTransferMappingNS, blockAddressTransferCountMappingNS, transferFromPrefix>>,
      <<blockAddressTransferMappingNS, blockAddressTransferCountMappingNS, transferToPrefix>>,
      <<blockAddressVoteMappingNS, blockAddressVoteCountMappingNS, voteFromPrefix>>,
      <<blockAddressVoteMappingNS, blockAddressVoteCountMappingNS, voteToPrefix>> }

\* the sequence numbers at which an entry is stored for (prefix, address)
StoredSequences(x, A) ==
    { Uint64(SubSeq(k[2], Len(A) + 1, Len(A) + 8)) :
        k \in { q \in DOMAIN store[x[1]] :
                    /\ q[1] = x[3]
                    /\ Len(q[2]) = Len(A) + 8
                    /\ SubSeq(q[2], 1, Len(A)) = A } }

\* the stored counter of (prefix, address), 0 when absent
StoredCount(x, A) ==
    IF Has(store, x[2], Key(x[3], A)) THEN Uint64(store[x[2]][Key(x[3], A)]) ELSE 0

\* C7 as claimed: in every reachable state, failed reads and commits
\* included, for each address and direction, for transfers and for votes, the
\* entries stored occupy exactly the sequence numbers 0 .. count-1.
C7_CountersMatchEntries ==
    \A x \in AddressIndexes : \A A \in Addresses :
        StoredSequences(x, A) = 0 .. (StoredCount(x, A) - 1)

\* C8 as claimed: putBlock of a block whose hash is already stored leaves the
\* payload untouched and increases neither the totals, nor a per-address
\* counter, nor the number of per-address index entries.
C8_ReputIsIdempotent ==
    [][(result'.op = "putBlock" /\ result'.reput)
        => /\ store'[blockNS] = store[blockNS]
           /\ \A x \in AddressIndexes :
                /\ store'[x[1]] = store[x[1]]
                /\ store'[x[2]] = store[x[2]]]_vars

\* the successful putBlock calls whose block carries an entry of hash h
PutsWith(h, votes) ==
    { j \in DOMAIN puts :
        \E e \in DOMAIN (IF votes THEN Blk(puts[j]).Votes ELSE Blk(puts[j]).Transfers) :
            (IF votes THEN Blk(puts[j]).Votes ELSE Blk(puts[j]).Transfers)[e].hash = h }

\* C9 as claimed: for every stored block B and every transfer (vote) t of B,
\* getBlockHashByTransferHash (getBlockHashByVoteHash) of hash(t) is hash(B).
C9_EntryToItsBlock ==
    \A B \in Stored :
        /\ \A i \in DOMAIN B.Transfers :
            getBlockHashByTransferHash(store, B.Transfers[i].hash, FALSE) = Ok(B.hash)
        /\ \A i \in DOMAIN B.Votes :
            getBlockHashByVoteHash(store, B.Votes[i].hash, FALSE) = Ok(B.hash)

\* C9 amended: for every stored block B and every transfer (vote) t of B, the
\* lookup of hash(t) returns the hash of the block put last among the stored
\* blocks that carry t; it is hash(B) when no block put after B carries t.
C9_EntryToLastBlock ==
    \A B \in Stored :
        /\ \A i \in DOMAIN B.Transfers :
            getBlockHashByTransferHash(store, B.Transfers[i].hash, FALSE)
                = Ok(Blk(puts[Max(PutsWith(B.Transfers[i].hash, FALSE))]).hash)
        /\ \A i \in DOMAIN B.Votes :
            getBlockHashByVoteHash(store, B.Votes[i].hash, FALSE)
                = Ok(Blk(puts[Max(PutsWith(B.Votes[i].hash, TRUE))]).hash)

\* two different blocks carrying the same transfer were put: the transfer
\* is mapped to the second one
C9_Witness ==
    /\ Len(puts) = 2
    /\ puts[1] # puts[2]
    /\ \E i \in DOMAIN Blk(puts[1]).Transfers :
        /\ PutsWith(Blk(puts[1]).Transfers[i].hash, FALSE) = {1, 2}
        /\ getBlockHashByTransferHash(store, Blk(puts[1]).Transfers[i].hash, FALSE)
                = Ok(Blk(puts[2]).hash)

\* C10 as claimed: every Start that returns success leaves the three
\* singleton counters present, whatever the earlier history.
C10_StartSeedsAllSingletons ==
    (result.op = "Start" /\ result.err = "none")
        => /\ getBlockchainHeight(store, FALSE).err = "none"
           /\ getTotalTransfers(store, FALSE).err = "none"
           /\ getTotalVotes(store, FALSE).err = "none"

-----------------------------------------------------------------------------

SingletonKeys == {topHeightKey, totalTransfersKey, totalVotesKey}

\* C11: a successful Start on a fresh store leaves the blockchain height, the
\* total of transfers and the total of votes reading 0, and a Start on a store
\* that holds a singleton counter leaves the value of that counter unchanged.
C11_StartSeedsOnlyAbsentCounters ==
    [][(result'.op = "Start")
        => /\ (store = EmptyStore /\ result'.err = "none")
                => /\ getBlockchainHeight(store', FALSE) = Ok(0)
                   /\ getTotalTransfers(store', FALSE) = Ok(0)
                   /\ getTotalVotes(store', FALSE) = Ok(0)
           /\ \A key \in SingletonKeys :
                Has(store, blockNS, key)
                    => /\ Has(store', blockNS, key)
                       /\ store'[blockNS][key] = store[blockNS][key]]_vars

\* Start returned on a store whose three counters are above zero
C11_Witness ==
    /\ result.op = "Start"
    /\ result.err = "none"
    /\ result.top > 0
    /\ getBlockchainHeight(store, FALSE).value > 0
    /\ getTotalTransfers(store, FALSE).value > 0
    /\ getTotalVotes(store, FALSE).value > 0

C13_BrokenHashIsAnError ==
    \A height \in Heights :
        LET key == Key(heightPrefix, Uint64ToBytes(height))
        IN  (/\ Has(store, blockHashHeightMappingNS, key)
             /\ Len(store[blockHashHeightMappingNS][key]) # HashLen)
                => getBlockHash(store, height, FALSE).err # "none"

\* C14 as claimed: a read during which the Get of the KV store fails with a
\* backend failure returns that failure to the caller, for the block, hash,
\* height and singleton readers and for the four per-address count getters of
\* an address whose counter is stored; it never returns a successful result.
C14_BackendFailureIsReported ==
    /\ \A id \in BlockIds :
        /\ getBlockHash(store, Blk(id).height, TRUE).err = "backend"
        /\ getBlockHeight(store, Blk(id).hash, TRUE).err = "backend"
        /\ getBlock(store, Blk(id).hash, TRUE).err = "backend"
        /\ \A i \in DOMAIN Blk(id).Transfers :
            getBlockHashByTransferHash(store, Blk(id).Transfers[i].hash, TRUE).err = "backend"
        /\ \A i \in DOMAIN Blk(id).Votes :
            getBlockHashByVoteHash(store, Blk(id).Votes[i].hash, TRUE).err = "backend"
    /\ getBlockchainHeight(store, TRUE).err = "backend"
    /\ getTotalTransfers(store, TRUE).err = "backend"
    /\ getTotalVotes(store, TRUE).err = "backend"
    /\ \A A \in Addresses :
        /\ StoredCount(<<blockAddressTransferMappingNS, blockAddressTransferCountMappingNS,
                         transferFromPrefix>>, A) > 0
            => getTransferCountBySenderAddress(store, A, TRUE).err = "backend"
        /\ StoredCount(<<blockAddressTransferMappingNS, blockAddressTransferCountMappingNS,
                         transferToPrefix>>, A) > 0
            => getTransferCountByRecipientAddress(store, A, TRUE).err = "backend"
        /\ StoredCount(<<blockAddressVoteMappingNS, blockAddressVoteCountMappingNS,
                         voteFromPrefix>>, A) > 0
            => getVoteCountBySenderAddress(store, A, TRUE).err = "backend"
        /\ StoredCount(<<blockAddressVoteMappingNS, blockAddressVoteCountMappingNS,
                         voteToPrefix>>, A) > 0
            => getVoteCountByRecipientAddress(store, A, TRUE).err = "backend"

\* the hashes of the transfers (votes) of a set of blocks
EntryHashes(S, votes) ==
    UNION { { (IF votes THEN B.Votes ELSE B.Transfers)[i].hash :
                i \in DOMAIN (IF votes THEN B.Votes ELSE B.Transfers) } : B \in S }

AllBlocks == { Blk(id) : id \in BlockIds }

\* C15: in every reachable state, getBlock and getBlockHeight of a block hash
\* that no successful putBlock stored, and getBlockHashByTransferHash /
\* getBlockHashByVoteHash of a transfer / vote hash that no stored block
\* carries, fail with the missing-key error; so do the lookups of a hash that
\* no block ever carried.
C15_AbsentHashIsNotFound ==
    /\ \A h \in { B.hash : B \in AllBlocks \ Stored } \cup {ZeroHash32B} :
        /\ getBlock(store, h, FALSE).err = "notexist"
        /\ getBlockHeight(store, h, FALSE) = Err("notexist", 0)
    /\ \A h \in (EntryHashes(AllBlocks, FALSE) \ EntryHashes(Stored, FALSE)) \cup {ZeroHash32B} :
        getBlockHashByTransferHash(store, h, FALSE) = Err("notexist", ZeroHash32B)
    /\ \A h \in (EntryHashes(AllBlocks, TRUE) \ EntryHashes(Stored, TRUE)) \cup {ZeroHash32B} :
        getBlockHashByVoteHash(store, h, FALSE) = Err("notexist", ZeroHash32B)

\* the store holds a block, and the putBlock of another block, with
\* transfers and votes of its own, failed at the commit
C15_Witness ==
    /\ puts # <<>>
    /\ result.op = "putBlock"
    /\ result.err = "commit"
    /\ Blk(result.blk) \notin Stored
    /\ EntryHashes({Blk(result.blk)}, FALSE) \ EntryHashes(Stored, FALSE) # {}
    /\ EntryHashes({Blk(result.blk)}, TRUE) \ EntryHashes(Stored, TRUE) # {}

\* C16: for an address whose counter key of a direction is absent, the count
\* getter of that direction returns 0 without error and the enumeration of
\* that direction returns the empty list without error, for transfers and
\* votes, senders and recipients.
C16_AbsentCounterIsEmpty ==
    \A A \in Addresses :
        /\ ~Has(store, blockAddressTransferCountMappingNS, Key(transferFromPrefix, A))
            => /\ getTransferCountBySenderAddress(store, A, FALSE) = Ok(0)
               /\ getTransfersBySenderAddress(store, A) = Ok(<<>>)
        /\ ~Has(store, blockAddressTransferCountMappingNS, Key(transferToPrefix, A))
            => /\ getTransferCountByRecipientAddress(store, A, FALSE) = Ok(0)
               /\ getTransfersByRecipientAddress(store, A) = Ok(<<>>)
        /\ ~Has(store, blockAddressVoteCountMappingNS, Key(voteFromPrefix, A))
            => /\ getVoteCountBySenderAddress(store, A, FALSE) = Ok(0)
               /\ getVotesBySenderAddress(store, A) = Ok(<<>>)
        /\ ~Has(store, blockAddressVoteCountMappingNS, Key(voteToPrefix, A))
            => /\ getVoteCountByRecipientAddress(store, A, FALSE) = Ok(0)
               /\ getVotesByRecipientAddress(store, A) = Ok(<<>>)

\* after one block with the single transfer A -> B, B has a recipient entry
\* and no sender counter: its sender-side list is empty
C16_Witness ==
    /\ puts = <<"one">>
    /\ ~Has(store, blockAddressTransferCountMappingNS, Key(transferFromPrefix, AddrB))
    /\ getTransfersBySenderAddress(store, AddrB) = Ok(<<>>)
    /\ getTransfersByRecipientAddress(store, AddrB) = Ok(<<Blk("one").Transfers[1].hash>>)

-----------------------------------------------------------------------------

\* a singleton counter is behind the stored blocks: a total is smaller than
\* the sum over the stored blocks, or the top height is below a stored height
LostUpdate ==
    \/ getTotalTransfers(store, FALSE).value < SumOver(Stored, FALSE)
    \/ getTotalVotes(store, FALSE).value < SumOver(Stored, TRUE)
    \/ getBlockchainHeight(store, FALSE).value < Max({ B.height : B \in Stored } \cup {0})

\* C17: as long as no putBlock was called while another was in flight, no
\* singleton counter is behind the stored blocks; the lost update (the
\* witness) needs two putBlock calls that both read before either commits.
C17_LostUpdateNeedsOverlap ==
    LostUpdate => overlapped

\* two putBlock calls overlapped, both commits succeeded, and each total is
\* smaller than the sum over the two stored blocks
C17_Witness ==
    /\ overlapped
    /\ Len(puts) = 2
    /\ puts[1] # puts[2]
    /\ result.err = "none"
    /\ getTotalTransfers(store, FALSE).value < SumOver(Stored, FALSE)
    /\ getTotalVotes(store, FALSE).value < SumOver(Stored, TRUE)

\* C18: across Start, Stop and putBlock, a key that is present in a namespace
\* is present in the next state, and the value of a key of the blocks
\* namespace other than the three singleton counters, i.e. of a block
\* payload, is the same in the next state.
C18_NothingDeletedPayloadKept ==
    [][\A ns \in Namespaces : \A key \in DOMAIN store[ns] :
        /\ Has(store', ns, key)
        /\ (ns = blockNS /\ key \notin SingletonKeys)
            => store'[ns][key] = store[ns][key]]_vars

\* a block whose payload was stored was put again and reads back as it was
C18_Witness ==
    /\ result.op = "putBlock"
    /\ result.err = "none"
    /\ result.reput
    /\ Len(puts) = 2
    /\ getBlock(store, Blk(result.blk).hash, FALSE) = [err |-> "none", blk |-> Blk(result.blk)]

\* the blocks with a vote whose voter or votee key has no address
Underivable ==
    { B \in AllBlocks :
        \E i \in DOMAIN B.Votes :
            \/ GetAddress(B.Votes[i].SelfPubkey).err # "none"
            \/ GetAddress(B.Votes[i].VotePubkey).err # "none" }

\* C19: a putBlock of a block with a vote whose voter or votee address cannot
\* be derived returns an error (the derivation error, when no read of the
\* store fails before), is not counted among the stored blocks and leaves
\* every namespace of the store as it was: nothing staged for the block
\* becomes visible.
C19_DerivationFailureAbandons ==
    [][(result'.op = "putBlock" /\ Blk(result'.blk) \in Underivable)
        => /\ result'.err # "none"
           /\ (result'.fault = NoFault /\ \A key \in SingletonKeys : Has(store, blockNS, key))
                => result'.err = "derivation"
           /\ store' = store
           /\ puts' = puts]_vars

\* on a store that holds a block, the putBlock of a block with an
\* underivable key failed at the derivation
C19_Witness ==
    /\ result.op = "putBlock"
    /\ result.err = "derivation"
    /\ result.fault = NoFault
    /\ puts # <<>>
    /\ getBlock(store, Blk(result.blk).hash, FALSE).err = "notexist"

\* the counter of (prefix, address) stored in st, 0 when absent
CountIn(st, x, A) ==
    IF Has(st, x[2], Key(x[3], A)) THEN Uint64(st[x[2]][Key(x[3], A)]) ELSE 0

\* the hashes a block adds to the index x of address A, in block order
AddedTo(x, A, B) ==
    HashesOf(IF x[3] \in {voteFromPrefix, voteToPrefix} THEN B.Votes ELSE B.Transfers,
             x[3] \in {voteFromPrefix, voteToPrefix},
             x[3] \in {transferFromPrefix, voteFromPrefix}, A)

\* what C20 says of one index and address: with on-disk counter c and k
\* occurrences in the block, the store after the commit holds the k hashes at
\* the sequence numbers c .. c+k-1 in block order and the counter c+k
DeltasContiguous(before, after, x, A, B) ==
    LET c == CountIn(before, x, A)
        hs == AddedTo(x, A, B)
    IN  Len(hs) > 0
            => /\ CountIn(after, x, A) = c + Len(hs)
               /\ \A j \in 1..Len(hs) :
                    Get(after, x[1], Key(x[3], A \o Uint64ToBytes(c + j - 1)), FALSE)
                        = [err |-> "none", value |-> hs[j]]

\* C20 as claimed: every putBlock that returns nil has, for transfers and
\* votes, senders and recipients, put the entries of each address at the
\* consecutive sequence numbers that follow its on-disk counter, in block
\* order, and stored the counter raised by the number of entries, each
\* direction on its own.
C20_DeltasGiveContiguousSequences ==
    [][(result'.op = "putBlock" /\ result'.err = "none")
        => \A x \in AddressIndexes : \A A \in Addresses :
            DeltasContiguous(store, store', x, A, Blk(result'.blk))]_vars

\* C20 restricted to the calls in which no read of a per-address counter
\* fails
C20_WithoutFailedCounterRead ==
    [][(result'.op = "putBlock" /\ result'.err = "none" /\ result'.fault = NoFault)
        => \A x \in AddressIndexes : \A A \in Addresses :
            DeltasContiguous(store, store', x, A, Blk(result'.blk))]_vars

-----------------------------------------------------------------------------

IsPrefix(s, t) == Len(s) <= Len(t) /\ s = SubSeq(t, 1, Len(s))

\* C21 as claimed: an enumeration of the transfers an address sent that
\* overlapped a putBlock never fails with a missing entry, and the list it
\* returned is a prefix of the final list, the one the store holds for the
\* address once the calls it overlapped have returned.
C21_OverlappingReadIsPrefix ==
    (reader # Idle /\ reader.pc = "done" /\ reader.overlap)
        => /\ reader.err = "none"
           /\ (/\ nputs = reader.calls
               /\ \A w \in Writers : inflight[w] = Idle
               /\ getTransfersBySenderAddress(store, reader.address).err = "none")
                => IsPrefix(reader.res,
                            getTransfersBySenderAddress(store, reader.address).value)

\* the sum over the addresses of the stored counters of the index x
RECURSIVE SumCounts(_, _)
SumCounts(x, S) ==
    IF S = {} THEN 0
    ELSE LET A == CHOOSE a \in S : TRUE
         IN  StoredCount(x, A) + SumCounts(x, S \ {A})

\* C22 as claimed: in every state reached by Start and single-writer putBlock
\* calls, the sender-side transfer counters of all addresses and the
\* recipient-side ones both add up to total-transfers, and the sender-side
\* and recipient-side vote counters both add up to total-votes.
C22_CountersAddUpToTotals ==
    /\ getTotalTransfers(store, FALSE).err = "none"
        => /\ SumCounts(<<blockAddressTransferMappingNS, blockAddressTransferCountMappingNS,
                          transferFromPrefix>>, Addresses)
                = getTotalTransfers(store, FALSE).value
           /\ SumCounts(<<blockAddressTransferMappingNS, blockAddressTransferCountMappingNS,
                          transferToPrefix>>, Addresses)
                = getTotalTransfers(store, FALSE).value
    /\ getTotalVotes(store, FALSE).err = "none"
        => /\ SumCounts(<<blockAddressVoteMappingNS, blockAddressVoteCountMappingNS,
                          voteFromPrefix>>, Addresses)
                = getTotalVotes(store, FALSE).value
           /\ SumCounts(<<blockAddressVoteMappingNS, blockAddressVoteCountMappingNS,
                          voteToPrefix>>, Addresses)
                = getTotalVotes(store, FALSE).value

====
